---- MODULE Spec2Model ----
(***************************************************************************)
(* Model of the loan comment builder (src/index.js): the CommentField      *)
(* value formatter and the CommentData registry with its three public      *)
(* operations updateAttrVal, updateAttrEnabled and generateComment.        *)
(*                                                                         *)
(* Text is modelled by TLA+ strings, character by character where the      *)
(* code parses or builds it.  A JavaScript value is a record               *)
(* [kind, str, num]; a number is carried exactly, in thousandths.          *)
(***************************************************************************)
EXTENDS Integers, Sequences, FiniteSets

VARIABLES
    fields,         \* CommentData.fields: key -> CommentField
    keyValPadding,  \* CommentData.keyValPadding
    protoEnabled,   \* Object.prototype.enabled, which fields['__proto__'].enabled is
    ret,            \* what the last call on CommentData returned
    threw,          \* whether the last call on CommentData raised a TypeError
    probe,          \* a CommentField on its own, for the formatter
    shown           \* what probe.GetValue() returned

vars == <<fields, keyValPadding, protoEnabled, ret, threw, probe, shown>>

----------------------------------------------------------------------------
(* Bounds of the model. *)

\* At most this many slots differ from their constructed state at once (a
\* field that is enabled or holds another value than the constructor gave
\* it; Object.prototype counts as one slot).
MaxTouched == 3

----------------------------------------------------------------------------
(* JavaScript values. *)

Str(s) == [kind |-> "string", str |-> s, num |-> 0]
Num(m) == [kind |-> "number", str |-> "", num |-> m]
NaN == [kind |-> "NaN", str |-> "", num |-> 0]
Undefined == [kind |-> "undefined", str |-> "", num |-> 0]

Digits == "0123456789"

CharAt(s, i) == SubSeq(s, i, i)

IsDigit(c) == \E d \in 1..10 : CharAt(Digits, d) = c

DigitVal(c) == (CHOOSE d \in 1..10 : CharAt(Digits, d) = c) - 1

IsWhiteSpace(c) == c \in {" ", "\n", "\t"}

RECURSIVE NatToString(_)
NatToString(n) ==
    IF n < 10 THEN CharAt(Digits, n + 1)
    ELSE NatToString(n \div 10) \o CharAt(Digits, (n % 10) + 1)

\* The fraction digits of m thousandths, without trailing zeros.
FractionDigits(m) ==
    LET f == m % 1000
    IN  IF f % 100 = 0 THEN NatToString(f \div 100)
        ELSE IF f % 10 = 0
             THEN NatToString(f \div 100) \o NatToString((f \div 10) % 10)
             ELSE NatToString(f \div 100) \o NatToString((f \div 10) % 10)
                  \o NatToString(f % 10)

\* Number::toString of a finite number below 1e21.
NumberToString(m) ==
    LET a == IF m < 0 THEN 0 - m ELSE m
    IN  (IF m < 0 THEN "-" ELSE "")
        \o NatToString(a \div 1000)
        \o (IF a % 1000 = 0 THEN "" ELSE "." \o FractionDigits(a))

\* ToString, as applied by string concatenation and template literals.
ToString(v) ==
    CASE v.kind = "string" -> v.str
      [] v.kind = "number" -> NumberToString(v.num)
      [] v.kind = "NaN" -> "NaN"
      [] OTHER -> "undefined"

\* Index of the first character of s at or after i that is no white space.
RECURSIVE SkipWhiteSpace(_, _)
SkipWhiteSpace(s, i) ==
    IF i <= Len(s) /\ IsWhiteSpace(CharAt(s, i)) THEN SkipWhiteSpace(s, i + 1)
    ELSE i

\* Index after the run of digits of s that starts at i.
RECURSIVE SkipDigits(_, _)
SkipDigits(s, i) ==
    IF i <= Len(s) /\ IsDigit(CharAt(s, i)) THEN SkipDigits(s, i + 1) ELSE i

\* The natural number written by the digits s[i..j-1]; 0 when there are none.
RECURSIVE DigitsToNat(_, _, _)
DigitsToNat(s, i, j) ==
    IF i >= j THEN 0
    ELSE DigitsToNat(s, i, j - 1) * 10 + DigitVal(CharAt(s, j - 1))

\* The thousandths written by the fraction digits s[i..j-1] (digits after
\* the third are below the model's precision).
FractionToThousandths(s, i, j) ==
    LET n == j - i
    IN  IF n = 0 THEN 0
        ELSE IF n = 1 THEN DigitsToNat(s, i, j) * 100
        ELSE IF n = 2 THEN DigitsToNat(s, i, j) * 10
        ELSE DigitsToNat(s, i, i + 3)

\* Number.parseFloat of a string: white space is skipped, then the longest
\* prefix that is a decimal literal (sign, digits, '.', digits) is read;
\* NaN when there is none.
ParseFloatString(s) ==
    LET start == SkipWhiteSpace(s, 1)
        neg == start <= Len(s) /\ CharAt(s, start) = "-"
        signed == start <= Len(s) /\ CharAt(s, start) \in {"-", "+"}
        i0 == IF signed THEN start + 1 ELSE start
        i1 == SkipDigits(s, i0)
        dot == i1 <= Len(s) /\ CharAt(s, i1) = "."
        f0 == IF dot THEN i1 + 1 ELSE i1
        f1 == SkipDigits(s, f0)
        mag == DigitsToNat(s, i0, i1) * 1000 + FractionToThousandths(s, f0, f1)
    IN  IF i1 = i0 /\ f1 = f0 THEN NaN
        ELSE Num(IF neg THEN 0 - mag ELSE mag)

\* Number.parseFloat(v): the argument is converted to a string first.
ParseFloat(v) == ParseFloatString(ToString(v))

\* Number.prototype.toFixed(2) of a number carried in thousandths.
ToFixed2(v) ==
    IF v.kind = "NaN" THEN "NaN"
    ELSE LET a == IF v.num < 0 THEN 0 - v.num ELSE v.num
             cents == (a + 5) \div 10
         IN  (IF v.num < 0 THEN "-" ELSE "")
             \o NatToString(cents \div 100) \o "."
             \o NatToString((cents \div 10) % 10) \o NatToString(cents % 10)

----------------------------------------------------------------------------
(* FieldType and CommentField. *)

TEXT == "text"
DOLLAR == "dollar"
PERCENT == "percent"
NUMBER == "number"
DECIMAL == "decimal"

FieldType == {TEXT, DOLLAR, PERCENT, NUMBER, DECIMAL}

CommentField(key, label, value, type) ==
    [key |-> key, label |-> label, value |-> value, enabled |-> FALSE, type |-> type]

\* Mutant of GetValue: the DOLLAR case omits toFixed(2).
GetValueNoCents(f) ==
    CASE f.type = DOLLAR -> Str("$" \o ToString(f.value))
      [] f.type = PERCENT -> Str(ToString(f.value) \o "%")
      [] OTHER -> f.value

\* CommentField.GetValue
GetValue(f) ==
    CASE f.type = DOLLAR -> Str("$" \o ToFixed2(ParseFloat(f.value)))
      [] f.type = PERCENT -> Str(ToString(f.value) \o "%")
      [] OTHER -> f.value

----------------------------------------------------------------------------
(* CommentData: construction. *)

\* The keys of CommentData.fields, in insertion order (the order of for..in).
FieldOrder ==
    << "summary-value", "loan-name-value", "loan-amount-value", "loan-term-value",
       "interest-rate-value", "monthly-income-value", "income-verification-value",
       "dti-before-value", "dti-after-value", "discretionary-income-value",
       "credit-score-value", "recommendation-value", "written-rec-value" >>

Keys == {FieldOrder[i] : i \in 1..Len(FieldOrder)}

\* CommentData.fields as the constructor builds it.
ConstructedFields ==
    [k \in Keys |->
       CASE k = "summary-value" -> CommentField(k, "", Str(""), TEXT)
         [] k = "loan-name-value" -> CommentField(k, "Loan Name", Str(""), TEXT)
         [] k = "loan-amount-value" -> CommentField(k, "Loan Amount", Num(0), DOLLAR)
         [] k = "loan-term-value" -> CommentField(k, "Loan Term", Str(""), TEXT)
         [] k = "interest-rate-value" -> CommentField(k, "Interest Rate", Num(0), PERCENT)
         [] k = "monthly-income-value" -> CommentField(k, "Monthly Income", Num(0), DOLLAR)
         [] k = "income-verification-value" ->
                CommentField(k, "Income Verification Src", Str(""), TEXT)
         [] k = "dti-before-value" -> CommentField(k, "DTI Before", Num(0), PERCENT)
         [] k = "dti-after-value" -> CommentField(k, "DTI After", Num(0), PERCENT)
         [] k = "discretionary-income-value" ->
                CommentField(k, "Discretionary Income", Num(0), DOLLAR)
         [] k = "credit-score-value" -> CommentField(k, "Credit Score", Num(0), NUMBER)
         [] k = "recommendation-value" -> CommentField(k, "Recommendation", Str(""), TEXT)
         [] k = "written-rec-value" -> CommentField(k, "", Str(""), TEXT)]

\* CommentData.sections
LOAN_INFO == "loan-info"
APPLICANT_INFO == "applicant-info"
RECOMMENDATION == "recommendation"

topBorderChar == "-"
sideBorderChar == "|"
cornerBorderChar == "+"
borderLRPadding == 1

----------------------------------------------------------------------------
(* Property lookup on CommentData.fields. *)

\* The properties Object.prototype has from the start; none is enumerable.
ObjectPrototypeKeys ==
    { "constructor", "hasOwnProperty", "isPrototypeOf", "propertyIsEnumerable",
      "toLocaleString", "toString", "valueOf", "__proto__" }

\* `attributeName in this.fields` in #printAttribute: generateComment passes
\* it names of its own only, none of them a property of Object.prototype, so
\* the own keys decide.
HasOwnProperty(k) == k \in Keys

\* `k in this.fields`: an own property, or one found on the prototype chain
\* (Object.prototype, with whatever has been stored on it).
HasProperty(k, pe) ==
    \/ k \in Keys
    \/ k \in ObjectPrototypeKeys
    \/ k = "enabled" /\ pe # "unset"

\* Mutant of UpdatedKeyValPadding: the enabled check of the loop is missing.
UpdatedKeyValPaddingOfAll(f, pad) ==
    LET lengths == {Len(f[k].label) : k \in Keys} \cup {0}
    IN  CHOOSE n \in lengths : \A m \in lengths : m <= n

\* The value #updateKeyValPadding leaves in keyValPadding (pad is the value
\* it finds there, which it overwrites with 0 first): the loop over the own
\* keys raises it to every greater label length of an enabled field, which
\* ends at the greatest of them, or at 0.
UpdatedKeyValPadding(f, pad) ==
    LET lengths == {Len(f[k].label) : k \in {j \in Keys : f[j].enabled}} \cup {0}
    IN  CHOOSE n \in lengths : \A m \in lengths : m <= n

\* Whether #updateKeyValPadding raises a TypeError.  After the own keys,
\* for..in visits the enumerable property 'enabled' once it is stored on
\* Object.prototype.  this.fields['enabled'] is that boolean x; x.enabled is
\* found on Object.prototype again, and when it is true the loop reads
\* x.label.length with x.label undefined.
UpdateKeyValPaddingThrows(pe) == pe = "true"

----------------------------------------------------------------------------
(* CommentData: rendering. *)

\* n copies of the text c, as the counting loops of the code append them.
RECURSIVE Repeat(_, _)
Repeat(c, n) == IF n <= 0 THEN "" ELSE c \o Repeat(c, n - 1)

\* Mutant of sectionIsEnabled: APPLICANT_INFO misses the last member.
sectionIsEnabledWithoutCreditScore(f, section) ==
    CASE section = LOAN_INFO ->
             \/ f["loan-name-value"].enabled
             \/ f["loan-amount-value"].enabled
             \/ f["loan-term-value"].enabled
             \/ f["interest-rate-value"].enabled
      [] section = APPLICANT_INFO ->
             \/ f["monthly-income-value"].enabled
             \/ f["income-verification-value"].enabled
             \/ f["monthly-income-value"].enabled
             \/ f["dti-before-value"].enabled
             \/ f["dti-after-value"].enabled
             \/ f["discretionary-income-value"].enabled
      [] section = RECOMMENDATION ->
             \/ f["recommendation-value"].enabled
             \/ f["written-rec-value"].enabled
      [] OTHER -> FALSE

\* #sectionIsEnabled
sectionIsEnabled(f, section) ==
    CASE section = LOAN_INFO ->
             \/ f["loan-name-value"].enabled
             \/ f["loan-amount-value"].enabled
             \/ f["loan-term-value"].enabled
             \/ f["interest-rate-value"].enabled
      [] section = APPLICANT_INFO ->
             \/ f["monthly-income-value"].enabled
             \/ f["income-verification-value"].enabled
             \/ f["monthly-income-value"].enabled
             \/ f["dti-before-value"].enabled
             \/ f["dti-after-value"].enabled
             \/ f["discretionary-income-value"].enabled
             \/ f["credit-score-value"].enabled
      [] section = RECOMMENDATION ->
             \/ f["recommendation-value"].enabled
             \/ f["written-rec-value"].enabled
      [] OTHER -> FALSE

\* Mutant of createBorder: the border counts the padding of one side only.
createBorderNarrow(text) ==
    LET TBSize == Len(text) + borderLRPadding
    IN  cornerBorderChar \o Repeat(topBorderChar, TBSize) \o cornerBorderChar \o "\n"
        \o sideBorderChar \o Repeat(" ", borderLRPadding) \o text
        \o Repeat(" ", borderLRPadding) \o sideBorderChar \o "\n"
        \o cornerBorderChar \o Repeat(topBorderChar, TBSize) \o cornerBorderChar

\* #createBorder
createBorder(text) ==
    LET TBSize == Len(text) + (borderLRPadding * 2)
    IN  cornerBorderChar \o Repeat(topBorderChar, TBSize) \o cornerBorderChar \o "\n"
        \o sideBorderChar \o Repeat(" ", borderLRPadding) \o text
        \o Repeat(" ", borderLRPadding) \o sideBorderChar \o "\n"
        \o cornerBorderChar \o Repeat(topBorderChar, TBSize) \o cornerBorderChar

\* Mutant of printAttribute: the enabled flag is not looked at.
printAttributeIgnoringEnabled(f, pad, attributeName) ==
    IF ~HasOwnProperty(attributeName) THEN ""
    ELSE f[attributeName].label \o ": "
         \o Repeat(" ", pad - Len(f[attributeName].label))
         \o ToString(GetValue(f[attributeName])) \o "\n"

\* Mutant of printAttribute: the line is not ended.
printAttributeWithoutNewline(f, pad, attributeName) ==
    IF ~HasOwnProperty(attributeName) \/ ~f[attributeName].enabled THEN ""
    ELSE f[attributeName].label \o ": "
         \o Repeat(" ", pad - Len(f[attributeName].label))
         \o ToString(GetValue(f[attributeName]))

\* #printAttribute, with pad the current keyValPadding
printAttribute(f, pad, attributeName) ==
    IF ~HasOwnProperty(attributeName) \/ ~f[attributeName].enabled THEN ""
    ELSE f[attributeName].label \o ": "
         \o Repeat(" ", pad - Len(f[attributeName].label))
         \o ToString(GetValue(f[attributeName])) \o "\n"

\* The text generateComment returns, with pad the keyValPadding its first
\* statement has computed.
generateCommentText(f, pad) ==
    (IF f["summary-value"].enabled
     THEN ToString(f["summary-value"].value) \o "\n\n" ELSE "")
    \o (IF sectionIsEnabled(f, LOAN_INFO)
        THEN createBorder("Loan Information") \o "\n"
             \o printAttribute(f, pad, "loan-name-value")
             \o printAttribute(f, pad, "loan-amount-value")
             \o printAttribute(f, pad, "loan-term-value")
             \o printAttribute(f, pad, "interest-rate-value")
             \o "\n"
        ELSE "")
    \o (IF sectionIsEnabled(f, APPLICANT_INFO)
        THEN createBorder("Applicant Information") \o "\n"
             \o printAttribute(f, pad, "monthly-income-value")
             \o printAttribute(f, pad, "income-verification-value")
             \o printAttribute(f, pad, "dti-before-value")
             \o printAttribute(f, pad, "dti-after-value")
             \o printAttribute(f, pad, "discretionary-income-value")
             \o printAttribute(f, pad, "credit-score-value")
             \o "\n"
        ELSE "")
    \o (IF sectionIsEnabled(f, RECOMMENDATION)
        THEN createBorder("Recommendation") \o "\n"
             \o printAttribute(f, pad, "recommendation-value")
             \o (IF f["written-rec-value"].enabled
                 THEN ToString(f["written-rec-value"].value) ELSE "")
             \o "\n"
        ELSE "")

----------------------------------------------------------------------------
(* The calls the page makes, and the inputs they are checked with. *)

\* attributeName.replace(/-enabled$/, '-value')
ReplaceEnabledSuffix(attributeName) ==
    LET n == Len(attributeName)
        m == Len("-enabled")
    IN  IF n >= m /\ SubSeq(attributeName, n - m + 1, n) = "-enabled"
        THEN SubSeq(attributeName, 1, n - m) \o "-value"
        ELSE attributeName

\* The id of the checkbox that belongs to the input with id k.
CheckboxId(k) == SubSeq(k, 1, Len(k) - Len("-value")) \o "-enabled"

\* Names that are no key of the catalog: one that is no property at all, the
\* id of a checkbox, and one that Object.prototype has.  (updateAttrVal is
\* not called with '__proto__' here, so nothing is stored as
\* Object.prototype.value.)
UnknownNames == {"nonexistent-value", "loan-name-enabled", "toString"}

UnknownCheckboxIds == {"nonexistent-enabled", "toString", "__proto__"}

AttributeNames == Keys \cup UnknownNames

CheckboxIds == {CheckboxId(k) : k \in Keys} \cup {"summary-value"} \cup UnknownCheckboxIds

\* The values updateAttrVal is called with, per attribute name: the value the
\* constructor gave the field, and what the page's inputs deliver (strings,
\* the empty string of an empty input among them) or a caller passes (numbers).
InputValues(attributeName) ==
    CASE attributeName = "summary-value" -> {Str(""), Str("Looks good")}
      [] attributeName = "loan-name-value" -> {Str(""), Str("Auto Loan")}
      [] attributeName = "loan-amount-value" -> {Num(0), Num(1000000)}
      [] attributeName = "loan-term-value" -> {Str("")}
      [] attributeName = "interest-rate-value" -> {Num(0)}
      [] attributeName = "monthly-income-value" -> {Num(0)}
      [] attributeName = "income-verification-value" -> {Str("")}
      [] attributeName = "dti-before-value" -> {Num(0)}
      [] attributeName = "dti-after-value" -> {Num(0)}
      [] attributeName = "discretionary-income-value" -> {Num(0)}
      [] attributeName = "credit-score-value" -> {Num(0)}
      [] attributeName = "recommendation-value" -> {Str(""), Str("Approve")}
      [] attributeName = "written-rec-value" -> {Str(""), Str("Strong applicant.")}
      [] OTHER -> {Str("x")}

\* The number of slots that differ from their constructed state.
Touched(f, pe) ==
    Cardinality({k \in Keys : f[k].enabled \/ f[k].value # ConstructedFields[k].value})
    + (IF pe # "unset" THEN 1 ELSE 0)

----------------------------------------------------------------------------
(* CommentData: the operations. *)

\* Mutant of updateAttrVal: storing a value also enables the field.
updateAttrValEnabling(attributeName, value) ==
    IF ~HasProperty(attributeName, protoEnabled)
    THEN /\ ret' = Undefined
         /\ threw' = FALSE
         /\ UNCHANGED <<fields, keyValPadding, protoEnabled, probe, shown>>
    ELSE /\ fields' = IF attributeName \in Keys
                      THEN [fields EXCEPT ![attributeName].value = value,
                                          ![attributeName].enabled = TRUE]
                      ELSE fields
         /\ protoEnabled' = protoEnabled
         /\ keyValPadding' = UpdatedKeyValPadding(fields', keyValPadding)
         /\ threw' = UpdateKeyValPaddingThrows(protoEnabled')
         /\ ret' = Undefined
         /\ UNCHANGED <<probe, shown>>

\* updateAttrVal(attributeName, value)
updateAttrVal(attributeName, value) ==
    IF ~HasProperty(attributeName, protoEnabled)
    THEN /\ ret' = Undefined
         /\ threw' = FALSE
         /\ UNCHANGED <<fields, keyValPadding, protoEnabled, probe, shown>>
    ELSE \* this.fields[attributeName].value = value: on the field, or on a
         \* built-in method of Object.prototype, where nothing reads it
         /\ fields' = IF attributeName \in Keys
                      THEN [fields EXCEPT ![attributeName].value = value]
                      ELSE fields
         /\ protoEnabled' = protoEnabled
         /\ keyValPadding' = UpdatedKeyValPadding(fields', keyValPadding)
         /\ threw' = UpdateKeyValPaddingThrows(protoEnabled')
         /\ ret' = Undefined
         /\ UNCHANGED <<probe, shown>>

\* updateAttrEnabled(attributeName, enabled)
updateAttrEnabled(attributeName, enabled) ==
    LET fieldKey == ReplaceEnabledSuffix(attributeName)
    IN  IF ~HasProperty(fieldKey, protoEnabled)
        THEN /\ ret' = Undefined
             /\ threw' = FALSE
             /\ UNCHANGED <<fields, keyValPadding, protoEnabled, probe, shown>>
        ELSE /\ fields' = IF fieldKey \in Keys
                          THEN [fields EXCEPT ![fieldKey].enabled = enabled]
                          ELSE fields
             /\ protoEnabled' = IF fieldKey = "__proto__"
                                THEN (IF enabled THEN "true" ELSE "false")
                                ELSE protoEnabled
             /\ keyValPadding' = UpdatedKeyValPadding(fields', keyValPadding)
             /\ threw' = UpdateKeyValPaddingThrows(protoEnabled')
             /\ ret' = Undefined
             /\ UNCHANGED <<probe, shown>>

\* Mutant of generateComment: the text is appended to the one returned
\* before, as if `result` outlived the call.
generateCommentAppending ==
    /\ keyValPadding' = UpdatedKeyValPadding(fields, keyValPadding)
    /\ threw' = UpdateKeyValPaddingThrows(protoEnabled)
    /\ ret' = IF threw' THEN Undefined
              ELSE Str((IF ret.kind = "string" THEN ret.str ELSE "")
                       \o generateCommentText(fields, keyValPadding'))
    /\ UNCHANGED <<fields, protoEnabled, probe, shown>>

\* generateComment()
generateComment ==
    /\ keyValPadding' = UpdatedKeyValPadding(fields, keyValPadding)
    /\ threw' = UpdateKeyValPaddingThrows(protoEnabled)
    /\ ret' = IF threw' THEN Undefined
              ELSE Str(generateCommentText(fields, keyValPadding'))
    /\ UNCHANGED <<fields, protoEnabled, probe, shown>>

InertProbe == CommentField("", "", Undefined, TEXT)

\* new CommentData()
Init ==
    /\ fields = ConstructedFields
    /\ keyValPadding = 0
    /\ protoEnabled = "unset"
    /\ ret = Undefined
    /\ threw = FALSE
    /\ probe = InertProbe
    /\ shown = Undefined

\* The bound of the model: the calls that would touch more slots are left out.
WithinBound == Touched(fields', protoEnabled') <= MaxTouched

SetValue ==
    \E a \in AttributeNames : \E v \in InputValues(a) :
        updateAttrVal(a, v) /\ WithinBound

SetEnabled ==
    \E c \in CheckboxIds : \E e \in BOOLEAN :
        updateAttrEnabled(c, e) /\ WithinBound

Next == SetValue \/ SetEnabled \/ generateComment

Spec == Init /\ [][Next]_vars

\* The CommentField the formatter is applied to on its own.
FormatValues ==
    { Num(0), Num(1234500), Num(1000000), Num(2346), Num(0 - 5000),
      Str(""), Str("abc"), Str("12.5"), Str("12.50"), Str("1234.5"),
      Str(" 42"), Str("7.1x"), Str(".5"), Str("-0.004") }

\* this.value = value, on a field of any type
SetProbeValue(value) ==
    /\ probe' = [probe EXCEPT !.value = value]
    /\ shown' = Undefined
    /\ UNCHANGED <<fields, keyValPadding, protoEnabled, ret, threw>>

\* probe.GetValue()
FormatProbe ==
    /\ shown' = GetValue(probe)
    /\ UNCHANGED <<fields, keyValPadding, protoEnabled, ret, threw, probe>>

\* new CommentField('probe', 'Probe', value, type)
InitFormat ==
    /\ fields = ConstructedFields
    /\ keyValPadding = 0
    /\ protoEnabled = "unset"
    /\ ret = Undefined
    /\ threw = FALSE
    /\ probe \in {CommentField("probe", "Probe", v, t) : v \in {Str(""), Num(0)}, t \in FieldType}
    /\ shown = Undefined

NextFormat == (\E v \in FormatValues : SetProbeValue(v)) \/ FormatProbe

SpecFormat == InitFormat /\ [][NextFormat]_vars

----------------------------------------------------------------------------
(* Reading a rendered comment. *)

StartsWith(s, p) == Len(s) >= Len(p) /\ SubSeq(s, 1, Len(p)) = p

EndsWith(s, p) == Len(s) >= Len(p) /\ SubSeq(s, Len(s) - Len(p) + 1, Len(s)) = p

\* Index of the first line break of s at or after i; 0 when there is none.
RECURSIVE IndexOfNewline(_, _)
IndexOfNewline(s, i) ==
    IF i > Len(s) THEN 0
    ELSE IF CharAt(s, i) = "\n" THEN i ELSE IndexOfNewline(s, i + 1)

\* The lines of s from index i on, without their line breaks.
RECURSIVE LinesFrom(_, _)
LinesFrom(s, i) ==
    IF i > Len(s) THEN << >>
    ELSE LET j == IndexOfNewline(s, i)
         IN  IF j = 0 THEN << SubSeq(s, i, Len(s)) >>
             ELSE << SubSeq(s, i, j - 1) >> \o LinesFrom(s, j + 1)

Lines(s) == LinesFrom(s, 1)

\* generateComment was the last call and returned a text.
Rendered == ret.kind = "string"

Enabled(k) == fields[k].enabled

EnabledLabels == {fields[k].label : k \in {j \in Keys : fields[j].enabled}}

\* A line that is neither blank, nor part of a heading box, nor the
\* attribute line of an enabled field.
IsFreeText(line, labels) ==
    /\ line # ""
    /\ ~StartsWith(line, cornerBorderChar)
    /\ ~StartsWith(line, sideBorderChar)
    /\ \A l \in labels \ {""} : ~StartsWith(line, l \o ": ")

\* The member fields of a section, in the order generateComment prints them.
SectionMembers(section) ==
    CASE section = LOAN_INFO ->
             << "loan-name-value", "loan-amount-value", "loan-term-value",
                "interest-rate-value" >>
      [] section = APPLICANT_INFO ->
             << "monthly-income-value", "income-verification-value",
                "dti-before-value", "dti-after-value",
                "discretionary-income-value", "credit-score-value" >>
      [] section = RECOMMENDATION ->
             << "recommendation-value", "written-rec-value" >>

SectionTitle(section) ==
    CASE section = LOAN_INFO -> "Loan Information"
      [] section = APPLICANT_INFO -> "Applicant Information"
      [] section = RECOMMENDATION -> "Recommendation"

SectionOrder == << LOAN_INFO, APPLICANT_INFO, RECOMMENDATION >>

Sections == {LOAN_INFO, APPLICANT_INFO, RECOMMENDATION}

MemberSet(section) ==
    {SectionMembers(section)[i] : i \in 1..Len(SectionMembers(section))}

SomeMemberEnabled(section) == \E k \in MemberSet(section) : Enabled(k)

----------------------------------------------------------------------------
(* C1 *)

\* C1: when generateComment has returned, the text holds no piece of a
\* disabled field, whatever its value: no line starts with the label of a
\* disabled labelled field followed by ':'; with the summary disabled the
\* text does not open with free text (it is empty or opens with a heading
\* box); with the written recommendation disabled no line after the first
\* is free text.
C1_DisabledFieldOmitted ==
    Rendered =>
        LET lines == Lines(ret.str)
            labels == EnabledLabels
        IN  /\ \A k \in Keys :
                   (~Enabled(k) /\ fields[k].label # "") =>
                       \A i \in 1..Len(lines) :
                           ~StartsWith(lines[i], fields[k].label \o ":")
            /\ ~Enabled("summary-value") =>
                   (ret.str = "" \/ ~IsFreeText(lines[1], labels))
            /\ ~Enabled("written-rec-value") =>
                   \A i \in 2..Len(lines) : ~IsFreeText(lines[i], labels)

\* Witness of C1: a comment rendered while loan-name and written-rec hold a
\* value and are disabled, in sections that are shown.
C1_Witness ==
    /\ Rendered
    /\ ~Enabled("loan-name-value")
    /\ fields["loan-name-value"].value = Str("Auto Loan")
    /\ Enabled("loan-amount-value")
    /\ ~Enabled("written-rec-value")
    /\ fields["written-rec-value"].value = Str("Strong applicant.")
    /\ ~Enabled("summary-value")

----------------------------------------------------------------------------
(* C2 *)

\* The heading box of a section is among the lines: its title line between
\* two border lines of the title's width.
HeadingShown(lines, section) ==
    LET title == SectionTitle(section)
        border == "+" \o Repeat("-", Len(title) + 2) \o "+"
    IN  \E i \in 2..(Len(lines) - 1) :
            /\ lines[i] = "| " \o title \o " |"
            /\ lines[i - 1] = border
            /\ lines[i + 1] = border

\* The number of lines a shown section takes: three of the box, one per
\* enabled labelled member, and the line its last line break ends.
SectionLineCount(section) ==
    IF ~SomeMemberEnabled(section) THEN 0
    ELSE 3
         + Cardinality({k \in MemberSet(section) :
                            Enabled(k) /\ fields[k].label # ""})
         + 1

\* C2: when generateComment has returned, a section's heading box is in the
\* text if and only if a member field of the section is enabled, whatever
\* the members' values; the text has the lines of the summary and of the
\* sections with an enabled member, and no other line.
C2_SectionShownIffMemberEnabled ==
    Rendered =>
        LET lines == Lines(ret.str)
        IN  /\ \A s \in Sections : HeadingShown(lines, s) <=> SomeMemberEnabled(s)
            /\ Len(lines) =
                   (IF Enabled("summary-value") THEN 2 ELSE 0)
                   + SectionLineCount(LOAN_INFO)
                   + SectionLineCount(APPLICANT_INFO)
                   + SectionLineCount(RECOMMENDATION)

\* Witness of C2: a comment rendered with one section shown because of an
\* enabled member whose value is empty, and another section hidden.
C2_Witness ==
    /\ Rendered
    /\ Enabled("income-verification-value")
    /\ fields["income-verification-value"].value = Str("")
    /\ \A k \in MemberSet(APPLICANT_INFO) \ {"income-verification-value"} : ~Enabled(k)
    /\ ~SomeMemberEnabled(LOAN_INFO)
    /\ HeadingShown(Lines(ret.str), APPLICANT_INFO)
    /\ ~HeadingShown(Lines(ret.str), LOAN_INFO)

----------------------------------------------------------------------------
(* C3 *)

\* The scenario of C3: from the constructed registry, only summary
\* ("Looks good"), loan-name ("Auto Loan") and loan-amount (1000) are
\* enabled, and generateComment has returned.
C3_Scenario ==
    /\ Rendered
    /\ \A k \in Keys :
           Enabled(k) <=> k \in {"summary-value", "loan-name-value", "loan-amount-value"}
    /\ fields["summary-value"].value = Str("Looks good")
    /\ fields["loan-name-value"].value = Str("Auto Loan")
    /\ fields["loan-amount-value"].value = Num(1000000)
    /\ \A k \in Keys \ {"summary-value", "loan-name-value", "loan-amount-value"} :
           fields[k].value = ConstructedFields[k].value

----------------------------------------------------------------------------
(* C5 *)

\* C5: when generateComment has returned with recommendation and written-rec
\* both enabled, the text ends with the attribute line of the recommendation
\* (label, ': ', the padding, the value) directly followed by the raw value
\* of the written recommendation on a line of its own, nothing in front of
\* it; with the two alone enabled and the values "Approve" and
\* "Strong applicant." the text is the Recommendation box followed by
\* "Recommendation: Approve" and "Strong applicant.".
C5_WrittenRecFollowsRecommendation ==
    (Rendered /\ Enabled("recommendation-value") /\ Enabled("written-rec-value")) =>
        LET lines == Lines(ret.str)
            n == Len(lines)
            rec == fields["recommendation-value"]
            written == fields["written-rec-value"]
        IN  /\ n >= 5
            /\ lines[n] = ToString(written.value)
            /\ lines[n - 1] = "Recommendation: "
                              \o Repeat(" ", keyValPadding - Len("Recommendation"))
                              \o ToString(rec.value)
            /\ EndsWith(ret.str, ToString(rec.value) \o "\n" \o ToString(written.value) \o "\n")
            /\ ( /\ \A k \in Keys \ {"recommendation-value", "written-rec-value"} : ~Enabled(k)
                 /\ rec.value = Str("Approve")
                 /\ written.value = Str("Strong applicant.") )
               => ret.str = "+----------------+\n| Recommendation |\n+----------------+\n"
                            \o "Recommendation: Approve\nStrong applicant.\n"

\* Witness of C5: a comment rendered with both fields enabled, holding
\* "Approve" and "Strong applicant.".
C5_Witness ==
    /\ Rendered
    /\ Enabled("recommendation-value")
    /\ Enabled("written-rec-value")
    /\ fields["recommendation-value"].value = Str("Approve")
    /\ fields["written-rec-value"].value = Str("Strong applicant.")

----------------------------------------------------------------------------
(* C8 and C9 *)

\* n is the greatest label length among the enabled fields, 0 when none is
\* enabled: no enabled field has a longer label, and one has a label of
\* that length unless n is 0.
IsMaxEnabledLabelLength(n) ==
    /\ n >= 0
    /\ \A k \in Keys : Enabled(k) => Len(fields[k].label) <= n
    /\ n > 0 => \E k \in Keys : Enabled(k) /\ Len(fields[k].label) = n

\* The attribute line of field k, without its line break.
AttributeLine(k) ==
    fields[k].label \o ": "
    \o Repeat(" ", keyValPadding - Len(fields[k].label))
    \o ToString(GetValue(fields[k]))

\* The three lines of the heading box of a title.
BoxLines(title) ==
    << "+" \o Repeat("-", Len(title) + 2) \o "+",
       "| " \o title \o " |",
       "+" \o Repeat("-", Len(title) + 2) \o "+" >>

\* The attribute lines of the enabled labelled members among the i-th and
\* later members of a section, in the section's order.
RECURSIVE MemberLinesFrom(_, _)
MemberLinesFrom(section, i) ==
    IF i > Len(SectionMembers(section)) THEN << >>
    ELSE LET k == SectionMembers(section)[i]
         IN  (IF Enabled(k) /\ fields[k].label # "" THEN << AttributeLine(k) >> ELSE << >>)
             \o MemberLinesFrom(section, i + 1)

SummaryLines ==
    IF Enabled("summary-value")
    THEN << ToString(fields["summary-value"].value), "" >>
    ELSE << >>

\* The lines of a section as C8 states them: box, blank line, member lines
\* (the written recommendation's raw value as the last of them), blank line.
SectionLinesAsClaimed(section) ==
    IF ~SomeMemberEnabled(section) THEN << >>
    ELSE BoxLines(SectionTitle(section)) \o << "" >>
         \o MemberLinesFrom(section, 1)
         \o (IF section = RECOMMENDATION /\ Enabled("written-rec-value")
             THEN << ToString(fields["written-rec-value"].value) >> ELSE << >>)
         \o << "" >>

\* The lines of a section as the code emits them: box, member lines, and
\* then the written recommendation's raw value when the section is
\* Recommendation and that field is enabled, a blank line otherwise.
SectionLines(section) ==
    IF ~SomeMemberEnabled(section) THEN << >>
    ELSE BoxLines(SectionTitle(section))
         \o MemberLinesFrom(section, 1)
         \o (IF section = RECOMMENDATION /\ Enabled("written-rec-value")
             THEN << ToString(fields["written-rec-value"].value) >> ELSE << "" >>)

C9_PaddingFreshAndAligned ==
    /\ IsMaxEnabledLabelLength(keyValPadding)
    /\ Rendered =>
           LET lines == Lines(ret.str)
           IN  /\ \A k \in Keys :
                      (Enabled(k) /\ fields[k].label # "") =>
                          /\ keyValPadding - Len(fields[k].label) >= 0
                          /\ \E i \in 1..Len(lines) :
                                 lines[i] = fields[k].label \o ": "
                                            \o Repeat(" ", keyValPadding - Len(fields[k].label))
                                            \o ToString(GetValue(fields[k]))
               /\ (\A k \in Keys :
                       Enabled(k) <=> k \in {"loan-name-value", "interest-rate-value"})
                  => /\ keyValPadding = 13
                     /\ \E i \in 1..Len(lines) :
                            lines[i] = "Loan Name:     "
                                       \o ToString(fields["loan-name-value"].value)
                     /\ \E i \in 1..Len(lines) :
                            lines[i] = "Interest Rate: "
                                       \o ToString(fields["interest-rate-value"].value) \o "%"

\* Witness of C9: a comment rendered with only Loan Name ("Auto Loan") and
\* Interest Rate (0) enabled.
C9_Witness ==
    /\ Rendered
    /\ \A k \in Keys : Enabled(k) <=> k \in {"loan-name-value", "interest-rate-value"}
    /\ fields["loan-name-value"].value = Str("Auto Loan")
    /\ fields["interest-rate-value"].value = Num(0)
    /\ keyValPadding = Len("Interest Rate")

----------------------------------------------------------------------------
(* C4 *)

\* What C4 says of a call: it raises no error, leaves every field, the
\* padding and the text of the next generateComment as they were.
SilentNoOp ==
    /\ ~threw'
    /\ fields' = fields
    /\ keyValPadding' = keyValPadding
    /\ UpdateKeyValPaddingThrows(protoEnabled')
           = UpdateKeyValPaddingThrows(protoEnabled)
    /\ generateCommentText(fields', UpdatedKeyValPadding(fields', keyValPadding'))
           = generateCommentText(fields, UpdatedKeyValPadding(fields, keyValPadding))

\* C4: every updateAttrVal with a name that is no key of the catalog, and
\* every updateAttrEnabled whose derived key is no key of the catalog, is a
\* silent no-op.
C4_UnknownKeyIsNoOp ==
    [][ /\ \A a \in UnknownNames : \A v \in InputValues(a) :
               updateAttrVal(a, v) => SilentNoOp
        /\ \A c \in UnknownCheckboxIds : \A e \in BOOLEAN :
               updateAttrEnabled(c, e) => SilentNoOp ]_vars

----------------------------------------------------------------------------
(* C6 *)

\* C6: a generateComment call leaves every field as it was (key, label,
\* value, enabled flag, type), and when it follows a generateComment call
\* that returned a text it returns that same text.  (P \/ ~A states A => P.)
C6_RenderIdempotent ==
    [][ \/ /\ fields' = fields
           /\ Rendered => ret' = ret
        \/ ~generateComment ]_vars

\* Witness of C6: a comment rendered from a registry with enabled fields,
\* from where generateComment can be called again.
C6_Witness ==
    /\ Rendered
    /\ ret.str # ""
    /\ Enabled("summary-value")
    /\ SomeMemberEnabled(LOAN_INFO)

----------------------------------------------------------------------------
(* C10 *)

CatalogFixed(f) ==
    /\ DOMAIN f = Keys
    /\ \A k \in Keys :
           /\ f[k].key = k
           /\ f[k].label = ConstructedFields[k].label
           /\ f[k].type = ConstructedFields[k].type

\* C10: the registry always holds the 13 constructed keys with their key,
\* label and type; updateAttrVal on a key of the catalog sets that field's
\* value and changes nothing else of any field (no enabled flag, no other
\* field's value); updateAttrEnabled on a checkbox of the catalog sets that
\* field's enabled flag and changes nothing else of any field (no value, no
\* other field's flag).  (P \/ ~A states A => P.)
C10_CatalogFixedMutationsLocal ==
    /\ CatalogFixed(fields)
    /\ [][ /\ CatalogFixed(fields')
           /\ \A k \in Keys : \A v \in InputValues(k) :
                  \/ fields' = [fields EXCEPT ![k].value = v]
                  \/ ~updateAttrVal(k, v)
           /\ \A k \in Keys : \A e \in BOOLEAN :
                  \/ fields' = [fields EXCEPT ![k].enabled = e]
                  \/ ~updateAttrEnabled(CheckboxId(k), e) ]_vars

\* Witness of C10: both mutations have acted on keys of the catalog, next to
\* a field with another value and another flag.
C10_Witness ==
    /\ fields["loan-name-value"].value = Str("Auto Loan")
    /\ ~Enabled("loan-name-value")
    /\ Enabled("loan-amount-value")
    /\ fields["loan-amount-value"].value = Num(0)
    /\ fields["summary-value"].value = Str("Looks good")
    /\ Enabled("summary-value")

----------------------------------------------------------------------------
(* C7 *)

\* The text s is digits, '.', and exactly two digits, after an optional '-'.
HasTwoDecimals(s) ==
    LET i0 == IF StartsWith(s, "-") THEN 2 ELSE 1
        i1 == SkipDigits(s, i0)
    IN  /\ i1 > i0
        /\ Len(s) = i1 + 2
        /\ CharAt(s, i1) = "."
        /\ IsDigit(CharAt(s, i1 + 1))
        /\ IsDigit(CharAt(s, i1 + 2))

\* The hundredths the text s of that form writes, without its sign.
HundredthsOf(s) ==
    LET i0 == IF StartsWith(s, "-") THEN 2 ELSE 1
        i1 == SkipDigits(s, i0)
    IN  DigitsToNat(s, i0, i1) * 100 + DigitsToNat(s, i1 + 1, i1 + 3)

\* C7: what GetValue returns is decided by the field's type and raw value.
\* DOLLAR, for a raw value that reads as a number: '$', then the number with
\* exactly 2 decimal digits, at most half a hundredth from the raw number and
\* with its sign (1234.5 gives "$1234.50", 0 gives "$0.00").  PERCENT: the
\* raw value as it is written, then '%' ("12.5" gives "12.5%", "12.50" gives
\* "12.50%").  Any other type: the raw value itself.
C7_FormatByType ==
    shown # Undefined =>
        /\ (probe.type = DOLLAR /\ ParseFloat(probe.value).kind = "number") =>
               LET n == ParseFloat(probe.value).num
                   body == SubSeq(shown.str, 2, Len(shown.str))
                   h == HundredthsOf(body) * 10
               IN  /\ shown.kind = "string"
                   /\ StartsWith(shown.str, "$")
                   /\ HasTwoDecimals(body)
                   /\ StartsWith(body, "-") <=> n < 0
                   /\ IF n < 0 THEN h + n <= 5 /\ h + n >= 0 - 5
                      ELSE h - n <= 5 /\ h - n >= 0 - 5
        /\ (probe.type = DOLLAR /\ probe.value = Num(1234500)) => shown = Str("$1234.50")
        /\ (probe.type = DOLLAR /\ probe.value = Num(0)) => shown = Str("$0.00")
        /\ (probe.type = PERCENT /\ probe.value.kind = "string") =>
               shown = Str(probe.value.str \o "%")
        /\ (probe.type = PERCENT /\ probe.value.kind = "number") =>
               shown = Str(NumberToString(probe.value.num) \o "%")
        /\ (probe.type = PERCENT /\ probe.value = Str("12.5")) => shown = Str("12.5%")
        /\ probe.type \in {TEXT, NUMBER, DECIMAL} => shown = probe.value

\* Witness of C7: the DOLLAR field holding 1234.5 has been formatted.
C7_Witness ==
    /\ probe.type = DOLLAR
    /\ probe.value = Num(1234500)
    /\ shown = Str("$1234.50")

====
